---- MODULE Spec2Model ----
(***************************************************************************)
(* A model of the gonum graph stores: the sparse directed store            *)
(* (simple/directed.go), the sparse undirected store (simple/undirected.go),*)
(* the dense directed matrix store and the generic Copy (graph.go and      *)
(* simple/dense_directed_matrix.go, kept together in unnamed/part_000).    *)
(*                                                                         *)
(* A store is a record; every method is an operator from the store (and    *)
(* the arguments) to the store after the call, together with the panic the *)
(* call ended with ("" when it returned).  Go maps are functions whose     *)
(* DOMAIN is the key set.  Weights are integers.                           *)
(***************************************************************************)
EXTENDS Integers, Sequences, FiniteSets, TLC

\* g: the store; dst: a second store (the destination of Copy, the sparse
\* twin of a dense g); cp: the record of a Copy; last: the latest call;
\* view: the matrix a Matrix() call returned; maxInt: the largest id
VARIABLES g, dst, cp, last, view, maxInt

vars == <<g, dst, cp, last, view, maxInt>>

(***************************************************************************)
(* Bounds of the model.                                                    *)
(***************************************************************************)
\* edge weights are 1..MaxWeight and -1 (the value of the absent sentinel)
MaxWeight == 1

\* The largest representable id (const maxInt of package simple) is fixed by
\* the build: it is the variable maxInt, which Init sets and no call changes.
\* The builds the stores are run in have it scaled down to SmallInt, the
\* build the allocator is run in alone has it scaled down to AllocInt.
SmallInt == 2
AllocInt == 4

\* the ids a client hands to the stores: every non-negative id
IDs == 0..maxInt
Weights == {0 - 1} \cup (1..MaxWeight)
\* the self and absent sentinels and the dense init weight a client passes
Selfs == {0}
Absents == {0 - 1}
Inits == {0, 0 - 1}

(***************************************************************************)
(* Values.                                                                 *)
(***************************************************************************)
\* a nil interface value (a nil graph.Node or graph.Edge)
Nil == [nil |-> TRUE]
\* simple.Node: a node is its id
Node(id) == [ID |-> id]
\* simple.Edge{F, T, W}
Edge(f, t, w) == [F |-> Node(f), T |-> Node(t), W |-> w]

\* Go maps
EmptyMap == [k \in {} |-> Nil]
MapPut(m, k, v) == [x \in (DOMAIN m) \cup {k} |-> IF x = k THEN v ELSE m[x]]
MapDel(m, k) == [x \in (DOMAIN m) \ {k} |-> m[x]]
\* m[k] of a map of maps, the nil (empty) map when k is no key
MapAt(m, k) == IF k \in DOMAIN m THEN m[k] ELSE EmptyMap
\* m[k] of a map of interface values, nil when k is no key
ValAt(m, k) == IF k \in DOMAIN m THEN m[k] ELSE Nil

\* intsets.Sparse
SetMin(s) == CHOOSE x \in s : \A y \in s : x <= y
SetMax(s) == IF s = {} THEN 0 - maxInt - 1 ELSE CHOOSE x \in s : \A y \in s : y <= x

\* the outcome of a call
Ok(s) == [g |-> s, panic |-> ""]
Panic(s, msg) == [g |-> s, panic |-> msg]
NoID == 0 - 1

(***************************************************************************)
(* The sparse directed store.                                              *)
(***************************************************************************)
NewDirectedGraph(self, absent) ==
    [kind |-> "DirectedGraph", nodes |-> EmptyMap, from |-> EmptyMap,
     to |-> EmptyMap, self |-> self, absent |-> absent,
     freeIDs |-> {}, usedIDs |-> {}]

\* NewNodeID as it would be without the free list: always past the maximum
Mutant_DirectedGraph_NewNodeID(s) ==
    IF Cardinality(DOMAIN s.nodes) = 0
    THEN [g |-> s, ret |-> 0, panic |-> ""]
    ELSE IF Cardinality(DOMAIN s.nodes) = maxInt
    THEN [g |-> s, ret |-> NoID, panic |-> "simple: cannot allocate node: no slot"]
    ELSE IF SetMax(s.usedIDs) < maxInt
    THEN [g |-> s, ret |-> SetMax(s.usedIDs) + 1, panic |-> ""]
    ELSE IF \E id \in 0..(maxInt - 1) : id \notin s.usedIDs
    THEN [g |-> s, ret |-> SetMin({id \in 0..(maxInt - 1) : id \notin s.usedIDs}),
          panic |-> ""]
    ELSE [g |-> s, ret |-> NoID, panic |-> "unreachable"]

DirectedGraph_NewNodeID(s) ==
    IF Cardinality(DOMAIN s.nodes) = 0
    THEN [g |-> s, ret |-> 0, panic |-> ""]
    ELSE IF Cardinality(DOMAIN s.nodes) = maxInt
    THEN [g |-> s, ret |-> NoID, panic |-> "simple: cannot allocate node: no slot"]
    ELSE IF s.freeIDs # {}
    THEN [g |-> [s EXCEPT !.freeIDs = @ \ {SetMin(s.freeIDs)}],
          ret |-> SetMin(s.freeIDs), panic |-> ""]
    ELSE IF SetMax(s.usedIDs) < maxInt
    THEN [g |-> s, ret |-> SetMax(s.usedIDs) + 1, panic |-> ""]
    ELSE IF \E id \in 0..(maxInt - 1) : id \notin s.usedIDs
    THEN [g |-> s, ret |-> SetMin({id \in 0..(maxInt - 1) : id \notin s.usedIDs}),
          panic |-> ""]
    ELSE [g |-> s, ret |-> NoID, panic |-> "unreachable"]

\* AddNode as it would be without the collision check: the node is overwritten
Mutant_DirectedGraph_AddNode(s, n) ==
    Ok([s EXCEPT !.nodes = MapPut(@, n.ID, n),
                 !.from = MapPut(@, n.ID, EmptyMap),
                 !.to = MapPut(@, n.ID, EmptyMap),
                 !.freeIDs = @ \ {n.ID},
                 !.usedIDs = @ \cup {n.ID}])

DirectedGraph_AddNode(s, n) ==
    IF n.ID \in DOMAIN s.nodes
    THEN Panic(s, "simple: node ID collision")
    ELSE Ok([s EXCEPT !.nodes = MapPut(@, n.ID, n),
                      !.from = MapPut(@, n.ID, EmptyMap),
                      !.to = MapPut(@, n.ID, EmptyMap),
                      !.freeIDs = @ \ {n.ID},
                      !.usedIDs = @ \cup {n.ID}])

\* RemoveNode as it would be without the loop that deletes id from g.from[to]
Mutant_DirectedGraph_RemoveNode_Loop(s, id) ==
    IF id \notin DOMAIN s.nodes
    THEN Ok(s)
    ELSE LET to1 == [k \in DOMAIN s.to |->
                        IF k \in DOMAIN MapAt(s.from, id)
                        THEN MapDel(s.to[k], id) ELSE s.to[k]]
         IN Ok([s EXCEPT !.nodes = MapDel(@, id),
                         !.from = MapDel(s.from, id),
                         !.to = MapDel(to1, id),
                         !.freeIDs = @ \cup {id},
                         !.usedIDs = @ \ {id}])

\* RemoveNode as it would be without delete(g.from, id) and delete(g.to, id)
Mutant_DirectedGraph_RemoveNode(s, id) ==
    IF id \notin DOMAIN s.nodes
    THEN Ok(s)
    ELSE LET to1 == [k \in DOMAIN s.to |->
                        IF k \in DOMAIN MapAt(s.from, id)
                        THEN MapDel(s.to[k], id) ELSE s.to[k]]
             from2 == [k \in DOMAIN s.from |->
                          IF k \in DOMAIN MapAt(to1, id)
                          THEN MapDel(s.from[k], id) ELSE s.from[k]]
         IN Ok([s EXCEPT !.nodes = MapDel(@, id),
                         !.from = from2,
                         !.to = to1,
                         !.freeIDs = @ \cup {id},
                         !.usedIDs = @ \ {id}])

DirectedGraph_RemoveNode(s, id) ==
    IF id \notin DOMAIN s.nodes
    THEN Ok(s)
    ELSE LET to1 == [k \in DOMAIN s.to |->
                        IF k \in DOMAIN MapAt(s.from, id)
                        THEN MapDel(s.to[k], id) ELSE s.to[k]]
             from1 == MapDel(s.from, id)
             from2 == [k \in DOMAIN from1 |->
                          IF k \in DOMAIN MapAt(to1, id)
                          THEN MapDel(from1[k], id) ELSE from1[k]]
             to2 == MapDel(to1, id)
         IN Ok([s EXCEPT !.nodes = MapDel(@, id),
                         !.from = from2,
                         !.to = to2,
                         !.freeIDs = @ \cup {id},
                         !.usedIDs = @ \ {id}])

DirectedGraph_Has(s, id) == id \in DOMAIN s.nodes

\* SetEdge as it would be with the self-edge check after the endpoints are added
Mutant_DirectedGraph_SetEdge(s, e) ==
    LET s1 == IF ~DirectedGraph_Has(s, e.F.ID)
              THEN DirectedGraph_AddNode(s, e.F).g ELSE s
        s2 == IF ~DirectedGraph_Has(s1, e.T.ID)
              THEN DirectedGraph_AddNode(s1, e.T).g ELSE s1
    IN IF e.F.ID = e.T.ID
       THEN Panic(s2, "simple: adding self edge")
       ELSE Ok([s2 EXCEPT !.from[e.F.ID] = MapPut(@, e.T.ID, e),
                          !.to[e.T.ID] = MapPut(@, e.F.ID, e)])

DirectedGraph_SetEdge(s, e) ==
    IF e.F.ID = e.T.ID
    THEN Panic(s, "simple: adding self edge")
    ELSE LET s1 == IF ~DirectedGraph_Has(s, e.F.ID)
                   THEN DirectedGraph_AddNode(s, e.F).g ELSE s
             s2 == IF ~DirectedGraph_Has(s1, e.T.ID)
                   THEN DirectedGraph_AddNode(s1, e.T).g ELSE s1
         IN IF e.F.ID \notin DOMAIN s2.from \/ e.T.ID \notin DOMAIN s2.to
            THEN Panic(s2, "assignment to entry in nil map")
            ELSE Ok([s2 EXCEPT !.from[e.F.ID] = MapPut(@, e.T.ID, e),
                               !.to[e.T.ID] = MapPut(@, e.F.ID, e)])

\* RemoveEdge as it would be without delete(g.to[tid], fid)
Mutant_DirectedGraph_RemoveEdge(s, e) ==
    IF e.F.ID \notin DOMAIN s.nodes \/ e.T.ID \notin DOMAIN s.nodes
    THEN Ok(s)
    ELSE Ok([s EXCEPT !.from = [k \in DOMAIN @ |->
                                   IF k = e.F.ID THEN MapDel(@[k], e.T.ID) ELSE @[k]]])

DirectedGraph_RemoveEdge(s, e) ==
    IF e.F.ID \notin DOMAIN s.nodes \/ e.T.ID \notin DOMAIN s.nodes
    THEN Ok(s)
    ELSE Ok([s EXCEPT !.from = [k \in DOMAIN @ |->
                                   IF k = e.F.ID THEN MapDel(@[k], e.T.ID) ELSE @[k]],
                      !.to = [k \in DOMAIN @ |->
                                 IF k = e.T.ID THEN MapDel(@[k], e.F.ID) ELSE @[k]]])

\* the nodes returned (a slice in map order; its elements as a set)
DirectedGraph_Nodes(s) == {s.nodes[k] : k \in DOMAIN s.nodes}

\* the edges returned (appended while ranging over nodes and from[u]; as a set)
DirectedGraph_Edges(s) ==
    UNION {{MapAt(s.from, u)[v] : v \in DOMAIN MapAt(s.from, u)} : u \in DOMAIN s.nodes}

\* len(g.Edges()): one append for every entry of g.from[u], u a node
RECURSIVE DirectedGraph_EdgesLen(_, _)
DirectedGraph_EdgesLen(s, us) ==
    IF us = {} THEN 0
    ELSE LET u == CHOOSE x \in us : TRUE
         IN Cardinality(DOMAIN MapAt(s.from, u)) + DirectedGraph_EdgesLen(s, us \ {u})

DirectedGraph_From(s, n) ==
    IF n \notin DOMAIN s.from THEN {}
    ELSE {ValAt(s.nodes, tid) : tid \in DOMAIN s.from[n]}

DirectedGraph_To(s, n) ==
    IF n \notin DOMAIN s.from THEN {}
    ELSE {ValAt(s.nodes, fid) : fid \in DOMAIN MapAt(s.to, n)}

DirectedGraph_HasEdgeBetween(s, x, y) ==
    IF x \notin DOMAIN s.nodes THEN FALSE
    ELSE IF y \notin DOMAIN s.nodes THEN FALSE
    ELSE IF y \in DOMAIN MapAt(s.from, x) THEN TRUE
    ELSE x \in DOMAIN MapAt(s.from, y)

DirectedGraph_Edge(s, u, v) ==
    IF u \notin DOMAIN s.nodes THEN Nil
    ELSE IF v \notin DOMAIN s.nodes THEN Nil
    ELSE ValAt(MapAt(s.from, u), v)

DirectedGraph_HasEdgeFromTo(s, u, v) ==
    IF u \notin DOMAIN s.nodes THEN FALSE
    ELSE IF v \notin DOMAIN s.nodes THEN FALSE
    ELSE v \in DOMAIN MapAt(s.from, u)

\* Weight as it would be looking the edge up in g.to instead of g.from
Mutant_DirectedGraph_Weight(s, x, y) ==
    IF x = y THEN <<s.self, TRUE>>
    ELSE IF x \in DOMAIN s.to /\ y \in DOMAIN s.to[x]
    THEN <<s.to[x][y].W, TRUE>>
    ELSE <<s.absent, FALSE>>

DirectedGraph_Weight(s, x, y) ==
    IF x = y THEN <<s.self, TRUE>>
    ELSE IF x \in DOMAIN s.from /\ y \in DOMAIN s.from[x]
    THEN <<s.from[x][y].W, TRUE>>
    ELSE <<s.absent, FALSE>>

\* Degree as it would be counting g.from[n] only
Mutant_DirectedGraph_Degree(s, n) ==
    IF n \notin DOMAIN s.nodes THEN 0
    ELSE Cardinality(DOMAIN MapAt(s.from, n))

DirectedGraph_Degree(s, n) ==
    IF n \notin DOMAIN s.nodes THEN 0
    ELSE Cardinality(DOMAIN MapAt(s.from, n)) + Cardinality(DOMAIN MapAt(s.to, n))

(***************************************************************************)
(* The sparse undirected store.                                            *)
(***************************************************************************)
NewUndirectedGraph(self, absent) ==
    [kind |-> "UndirectedGraph", nodes |-> EmptyMap, edges |-> EmptyMap,
     self |-> self, absent |-> absent, freeIDs |-> {}, usedIDs |-> {}]

\* NewNodeID as it would be without the len(g.nodes) == 0 case
Mutant_UndirectedGraph_NewNodeID(s) ==
    IF Cardinality(DOMAIN s.nodes) = maxInt
    THEN [g |-> s, ret |-> NoID, panic |-> "simple: cannot allocate node: no slot"]
    ELSE IF s.freeIDs # {}
    THEN [g |-> [s EXCEPT !.freeIDs = @ \ {SetMin(s.freeIDs)}],
          ret |-> SetMin(s.freeIDs), panic |-> ""]
    ELSE IF s.usedIDs = {}
    THEN [g |-> s, ret |-> 0, panic |-> ""]
    ELSE IF SetMax(s.usedIDs) < maxInt
    THEN [g |-> s, ret |-> SetMax(s.usedIDs) + 1, panic |-> ""]
    ELSE IF \E id \in 0..(maxInt - 1) : id \notin s.usedIDs
    THEN [g |-> s, ret |-> SetMin({id \in 0..(maxInt - 1) : id \notin s.usedIDs}),
          panic |-> ""]
    ELSE [g |-> s, ret |-> NoID, panic |-> "unreachable"]

UndirectedGraph_NewNodeID(s) ==
    IF Cardinality(DOMAIN s.nodes) = 0
    THEN [g |-> s, ret |-> 0, panic |-> ""]
    ELSE IF Cardinality(DOMAIN s.nodes) = maxInt
    THEN [g |-> s, ret |-> NoID, panic |-> "simple: cannot allocate node: no slot"]
    ELSE IF s.freeIDs # {}
    THEN [g |-> [s EXCEPT !.freeIDs = @ \ {SetMin(s.freeIDs)}],
          ret |-> SetMin(s.freeIDs), panic |-> ""]
    ELSE IF SetMax(s.usedIDs) < maxInt
    THEN [g |-> s, ret |-> SetMax(s.usedIDs) + 1, panic |-> ""]
    ELSE IF \E id \in 0..(maxInt - 1) : id \notin s.usedIDs
    THEN [g |-> s, ret |-> SetMin({id \in 0..(maxInt - 1) : id \notin s.usedIDs}),
          panic |-> ""]
    ELSE [g |-> s, ret |-> NoID, panic |-> "unreachable"]

\* AddNode as it would be without g.freeIDs.Remove(n.ID())
Mutant_UndirectedGraph_AddNode(s, n) ==
    IF n.ID \in DOMAIN s.nodes
    THEN Panic(s, "simple: node ID collision")
    ELSE Ok([s EXCEPT !.nodes = MapPut(@, n.ID, n),
                      !.edges = MapPut(@, n.ID, EmptyMap),
                      !.usedIDs = @ \cup {n.ID}])

UndirectedGraph_AddNode(s, n) ==
    IF n.ID \in DOMAIN s.nodes
    THEN Panic(s, "simple: node ID collision")
    ELSE Ok([s EXCEPT !.nodes = MapPut(@, n.ID, n),
                      !.edges = MapPut(@, n.ID, EmptyMap),
                      !.freeIDs = @ \ {n.ID},
                      !.usedIDs = @ \cup {n.ID}])

\* RemoveNode as it would be without g.usedIDs.Remove(id)
Mutant_UndirectedGraph_RemoveNode(s, id) ==
    IF id \notin DOMAIN s.nodes
    THEN Ok(s)
    ELSE LET edges1 == [k \in DOMAIN s.edges |->
                           IF k \in DOMAIN MapAt(s.edges, id)
                           THEN MapDel(s.edges[k], id) ELSE s.edges[k]]
         IN Ok([s EXCEPT !.nodes = MapDel(@, id),
                         !.edges = MapDel(edges1, id),
                         !.freeIDs = @ \cup {id}])

UndirectedGraph_RemoveNode(s, id) ==
    IF id \notin DOMAIN s.nodes
    THEN Ok(s)
    ELSE LET edges1 == [k \in DOMAIN s.edges |->
                           IF k \in DOMAIN MapAt(s.edges, id)
                           THEN MapDel(s.edges[k], id) ELSE s.edges[k]]
         IN Ok([s EXCEPT !.nodes = MapDel(@, id),
                         !.edges = MapDel(edges1, id),
                         !.freeIDs = @ \cup {id},
                         !.usedIDs = @ \ {id}])

UndirectedGraph_Has(s, n) == n \in DOMAIN s.nodes

\* SetEdge as it would be without the AddNode of the to node: the first
\* assignment is done, the second one finds no map when to is absent
Mutant_UndirectedGraph_SetEdge_To(s, e) ==
    IF e.F.ID = e.T.ID
    THEN Panic(s, "simple: adding self edge")
    ELSE LET s1 == IF ~UndirectedGraph_Has(s, e.F.ID)
                   THEN UndirectedGraph_AddNode(s, e.F).g ELSE s
             s2 == [s1 EXCEPT !.edges =
                        [k \in DOMAIN @ |->
                            IF k = e.F.ID THEN MapPut(@[k], e.T.ID, e) ELSE @[k]]]
         IN IF e.T.ID \notin DOMAIN s2.edges
            THEN Panic(s2, "assignment to entry in nil map")
            ELSE Ok([s2 EXCEPT !.edges =
                        [k \in DOMAIN @ |->
                            IF k = e.T.ID THEN MapPut(@[k], e.F.ID, e) ELSE @[k]]])

\* SetEdge as it would be without g.edges[tid][fid] = e
Mutant_UndirectedGraph_SetEdge(s, e) ==
    IF e.F.ID = e.T.ID
    THEN Panic(s, "simple: adding self edge")
    ELSE LET s1 == IF ~UndirectedGraph_Has(s, e.F.ID)
                   THEN UndirectedGraph_AddNode(s, e.F).g ELSE s
             s2 == IF ~UndirectedGraph_Has(s1, e.T.ID)
                   THEN UndirectedGraph_AddNode(s1, e.T).g ELSE s1
         IN Ok([s2 EXCEPT !.edges =
                   [k \in DOMAIN @ |->
                       IF k = e.F.ID THEN MapPut(@[k], e.T.ID, e) ELSE @[k]]])

UndirectedGraph_SetEdge(s, e) ==
    IF e.F.ID = e.T.ID
    THEN Panic(s, "simple: adding self edge")
    ELSE LET s1 == IF ~UndirectedGraph_Has(s, e.F.ID)
                   THEN UndirectedGraph_AddNode(s, e.F).g ELSE s
             s2 == IF ~UndirectedGraph_Has(s1, e.T.ID)
                   THEN UndirectedGraph_AddNode(s1, e.T).g ELSE s1
         IN IF e.F.ID \notin DOMAIN s2.edges \/ e.T.ID \notin DOMAIN s2.edges
            THEN Panic(s2, "assignment to entry in nil map")
            ELSE Ok([s2 EXCEPT !.edges =
                        [k \in DOMAIN @ |->
                            IF k = e.F.ID THEN MapPut(@[k], e.T.ID, e)
                            ELSE IF k = e.T.ID THEN MapPut(@[k], e.F.ID, e)
                            ELSE @[k]]])

\* RemoveEdge as it would be without delete(g.edges[tid], fid)
Mutant_UndirectedGraph_RemoveEdge(s, e) ==
    IF e.F.ID \notin DOMAIN s.nodes \/ e.T.ID \notin DOMAIN s.nodes
    THEN Ok(s)
    ELSE Ok([s EXCEPT !.edges = [k \in DOMAIN @ |->
                                    IF k = e.F.ID THEN MapDel(@[k], e.T.ID) ELSE @[k]]])

UndirectedGraph_RemoveEdge(s, e) ==
    IF e.F.ID \notin DOMAIN s.nodes \/ e.T.ID \notin DOMAIN s.nodes
    THEN Ok(s)
    ELSE LET edges1 == [k \in DOMAIN s.edges |->
                           IF k = e.F.ID THEN MapDel(s.edges[k], e.T.ID)
                           ELSE s.edges[k]]
             edges2 == [k \in DOMAIN edges1 |->
                           IF k = e.T.ID THEN MapDel(edges1[k], e.F.ID)
                           ELSE edges1[k]]
         IN Ok([s EXCEPT !.edges = edges2])

UndirectedGraph_Nodes(s) == {s.nodes[k] : k \in DOMAIN s.nodes}

\* the seen set keeps the second entry of an edge (the one under its other
\* endpoint) out of the slice: the edges returned are the stored edge values
UndirectedGraph_Edges(s) ==
    UNION {{MapAt(s.edges, u)[v] : v \in DOMAIN MapAt(s.edges, u)} : u \in DOMAIN s.edges}

\* Edges() as the slice it builds.  One turn of the inner loop on the edge e:
\* r is the seen set and the slice so far
\* the turn as it would be without the seen test
Mutant_EdgesVisit(r, e) ==
    [seen |-> r.seen \cup {<<e.F.ID, e.T.ID>>, <<e.T.ID, e.F.ID>>},
     out |-> Append(r.out, e)]

EdgesVisit(r, e) ==
    IF <<e.F.ID, e.T.ID>> \in r.seen
    THEN r
    ELSE [seen |-> r.seen \cup {<<e.F.ID, e.T.ID>>, <<e.T.ID, e.F.ID>>},
          out |-> Append(r.out, e)]

\* the inner loop over g.edges[u], in any order of the keys vs still to come
RECURSIVE EdgesInner(_, _, _, _)
EdgesInner(r, s, u, vs) ==
    IF vs = {} THEN {r}
    ELSE UNION {EdgesInner(EdgesVisit(r, s.edges[u][v]), s, u, vs \ {v}) : v \in vs}

\* the outer loop over g.edges, in any order of the keys us still to come
RECURSIVE EdgesOuter(_, _, _)
EdgesOuter(rs, s, us) ==
    IF us = {} THEN rs
    ELSE UNION {EdgesOuter(UNION {EdgesInner(r, s, u, DOMAIN s.edges[u]) : r \in rs},
                           s, us \ {u}) : u \in us}

\* the slices Edges() may return, one for every order the maps are ranged in
UndirectedGraph_EdgesSlices(s) ==
    {r.out : r \in EdgesOuter({[seen |-> {}, out |-> <<>>]}, s, DOMAIN s.edges)}

UndirectedGraph_From(s, n) ==
    IF ~UndirectedGraph_Has(s, n) THEN {}
    ELSE {ValAt(s.nodes, from) : from \in DOMAIN MapAt(s.edges, n)}

UndirectedGraph_HasEdgeBetween(s, x, y) == y \in DOMAIN MapAt(s.edges, x)

UndirectedGraph_EdgeBetween(s, x, y) ==
    IF ~UndirectedGraph_Has(s, x) THEN Nil
    ELSE ValAt(MapAt(s.edges, x), y)

UndirectedGraph_Edge(s, u, v) == UndirectedGraph_EdgeBetween(s, u, v)

UndirectedGraph_Weight(s, x, y) ==
    IF x = y THEN <<s.self, TRUE>>
    ELSE IF x \in DOMAIN s.edges /\ y \in DOMAIN s.edges[x]
    THEN <<s.edges[x][y].W, TRUE>>
    ELSE <<s.absent, FALSE>>

UndirectedGraph_Degree(s, n) ==
    IF n \notin DOMAIN s.nodes THEN 0
    ELSE Cardinality(DOMAIN MapAt(s.edges, n))

(***************************************************************************)
(* The dense directed matrix store.                                        *)
(***************************************************************************)
\* isSame of package simple: equality that also holds between two NaNs
isSame(a, b) == a = b

\* mat64.Dense: r rows, c columns and the cells; At and Set panic outside them
NewDense(r, c, data) ==
    [r |-> r, c |-> c, at |-> [p \in (0..(r - 1)) \X (0..(c - 1)) |-> data[p[1] * c + p[2]]]]
InRange(m, i, j) == <<i, j>> \in DOMAIN m.at

NewDirectedMatrix(n, init, self, absent) ==
    LET mat == [i \in 0..(n * n - 1) |-> IF i % (n + 1) = 0 THEN self ELSE init]
    IN [kind |-> "DirectedMatrix", mat |-> NewDense(n, n, mat),
        self |-> self, absent |-> absent]

DirectedMatrix_has(s, id) == 0 <= id /\ id < s.mat.r

DirectedMatrix_Has(s, n) == DirectedMatrix_has(s, n)

DirectedMatrix_Node(s, id) ==
    IF ~DirectedMatrix_has(s, id) THEN Nil ELSE Node(id)

DirectedMatrix_Nodes(s) == {Node(i) : i \in 0..(s.mat.r - 1)}

DirectedMatrix_Edges(s) ==
    {[F |-> DirectedMatrix_Node(s, p[1]), T |-> DirectedMatrix_Node(s, p[2]),
      W |-> s.mat.at[p]] :
        p \in {q \in (0..(s.mat.r - 1)) \X (0..(s.mat.r - 1)) :
                  q[1] # q[2] /\ ~isSame(s.mat.at[q], s.absent)}}

DirectedMatrix_From(s, id) ==
    IF ~DirectedMatrix_has(s, id) THEN {}
    ELSE {DirectedMatrix_Node(s, j) :
            j \in {k \in 0..(s.mat.c - 1) :
                      k # id /\ ~isSame(s.mat.at[<<id, k>>], s.absent)}}

DirectedMatrix_To(s, id) ==
    IF ~DirectedMatrix_has(s, id) THEN {}
    ELSE {DirectedMatrix_Node(s, i) :
            i \in {k \in 0..(s.mat.r - 1) :
                      k # id /\ ~isSame(s.mat.at[<<k, id>>], s.absent)}}

DirectedMatrix_HasEdgeBetween(s, x, y) ==
    IF ~DirectedMatrix_has(s, x) THEN FALSE
    ELSE IF ~DirectedMatrix_has(s, y) THEN FALSE
    ELSE x # y /\ (~isSame(s.mat.at[<<x, y>>], s.absent)
                   \/ ~isSame(s.mat.at[<<y, x>>], s.absent))

\* HasEdgeFromTo as it would be without the u != v test
Mutant_DirectedMatrix_HasEdgeFromTo(s, u, v) ==
    IF ~DirectedMatrix_has(s, u) THEN FALSE
    ELSE IF ~DirectedMatrix_has(s, v) THEN FALSE
    ELSE ~isSame(s.mat.at[<<u, v>>], s.absent)

DirectedMatrix_HasEdgeFromTo(s, u, v) ==
    IF ~DirectedMatrix_has(s, u) THEN FALSE
    ELSE IF ~DirectedMatrix_has(s, v) THEN FALSE
    ELSE u # v /\ ~isSame(s.mat.at[<<u, v>>], s.absent)

DirectedMatrix_Edge(s, u, v) ==
    IF DirectedMatrix_HasEdgeFromTo(s, u, v)
    THEN [F |-> DirectedMatrix_Node(s, u), T |-> DirectedMatrix_Node(s, v),
          W |-> s.mat.at[<<u, v>>]]
    ELSE Nil

DirectedMatrix_Weight(s, x, y) ==
    IF x = y THEN <<s.self, TRUE>>
    ELSE IF DirectedMatrix_has(s, x) /\ DirectedMatrix_has(s, y)
    THEN <<s.mat.at[<<x, y>>], TRUE>>
    ELSE <<s.absent, FALSE>>

DirectedMatrix_SetEdge(s, e) ==
    IF e.F.ID = e.T.ID
    THEN Panic(s, "simple: set illegal edge")
    ELSE IF ~InRange(s.mat, e.F.ID, e.T.ID)
    THEN Panic(s, "mat64: index out of range")
    ELSE Ok([s EXCEPT !.mat.at[<<e.F.ID, e.T.ID>>] = e.W])

\* RemoveEdge as it would be clearing the cell of the opposite direction
Mutant_DirectedMatrix_RemoveEdge(s, e) ==
    IF ~DirectedMatrix_has(s, e.F.ID) THEN Ok(s)
    ELSE IF ~DirectedMatrix_has(s, e.T.ID) THEN Ok(s)
    ELSE Ok([s EXCEPT !.mat.at[<<e.T.ID, e.F.ID>>] = s.absent])

DirectedMatrix_RemoveEdge(s, e) ==
    IF ~DirectedMatrix_has(s, e.F.ID) THEN Ok(s)
    ELSE IF ~DirectedMatrix_has(s, e.T.ID) THEN Ok(s)
    ELSE Ok([s EXCEPT !.mat.at[<<e.F.ID, e.T.ID>>] = s.absent])

\* the degree returned, or the panic of mat64's At on an id outside the grid
DirectedMatrix_Degree(s, id) ==
    IF \E i \in 0..(s.mat.r - 1) : i # id /\ ~InRange(s.mat, id, i)
    THEN [ret |-> 0, panic |-> "mat64: index out of range"]
    ELSE [ret |-> Cardinality({i \in 0..(s.mat.r - 1) :
                      i # id /\ ~isSame(s.mat.at[<<id, i>>], s.absent)})
                  + Cardinality({i \in 0..(s.mat.c - 1) :
                      i # id /\ ~isSame(s.mat.at[<<i, id>>], s.absent)}),
          panic |-> ""]

\* m := *g.mat copies the header of the matrix (its dimensions and the slice
\* header of its data) and &m is returned: the value returned is a pointer
\* (ptr) to a header of its own, not to the store's, and its cells are the
\* cells of the store's grid
\* Matrix as it would be returning g.mat itself
Mutant_DirectedMatrix_Matrix(s) == [ptr |-> "g.mat", r |-> s.mat.r, c |-> s.mat.c]

DirectedMatrix_Matrix(s) == [ptr |-> "m", r |-> s.mat.r, c |-> s.mat.c]

\* At(i, j) on a value returned by Matrix
MatrixAt(s, mv, i, j) == s.mat.at[<<i, j>>]

\* Set(i, j, w) on a value returned by Matrix, asserted to *mat64.Dense: the
\* cell is written in the data the header shares with the store
MatrixSet(s, mv, i, j, w) ==
    IF i \in 0..(mv.r - 1) /\ j \in 0..(mv.c - 1)
    THEN Ok([s EXCEPT !.mat.at[<<i, j>>] = w])
    ELSE Panic(s, "mat64: index out of range")

\* Reset() on a value returned by Matrix: the header it points to is emptied
MatrixReset(s, mv) ==
    IF mv.ptr = "g.mat"
    THEN [s EXCEPT !.mat = NewDense(0, 0, <<>>)]
    ELSE s

(***************************************************************************)
(* The capability interfaces: a call on an interface value dispatches on   *)
(* the concrete store.                                                     *)
(***************************************************************************)
Has(s, id) ==
    CASE s.kind = "DirectedGraph" -> DirectedGraph_Has(s, id)
      [] s.kind = "UndirectedGraph" -> UndirectedGraph_Has(s, id)
      [] s.kind = "DirectedMatrix" -> DirectedMatrix_Has(s, id)

Nodes(s) ==
    CASE s.kind = "DirectedGraph" -> DirectedGraph_Nodes(s)
      [] s.kind = "UndirectedGraph" -> UndirectedGraph_Nodes(s)
      [] s.kind = "DirectedMatrix" -> DirectedMatrix_Nodes(s)

From(s, id) ==
    CASE s.kind = "DirectedGraph" -> DirectedGraph_From(s, id)
      [] s.kind = "UndirectedGraph" -> UndirectedGraph_From(s, id)
      [] s.kind = "DirectedMatrix" -> DirectedMatrix_From(s, id)

GraphEdge(s, u, v) ==
    CASE s.kind = "DirectedGraph" -> DirectedGraph_Edge(s, u, v)
      [] s.kind = "UndirectedGraph" -> UndirectedGraph_Edge(s, u, v)
      [] s.kind = "DirectedMatrix" -> DirectedMatrix_Edge(s, u, v)

Weight(s, x, y) ==
    CASE s.kind = "DirectedGraph" -> DirectedGraph_Weight(s, x, y)
      [] s.kind = "UndirectedGraph" -> UndirectedGraph_Weight(s, x, y)
      [] s.kind = "DirectedMatrix" -> DirectedMatrix_Weight(s, x, y)

NewNodeID(s) ==
    CASE s.kind = "DirectedGraph" -> DirectedGraph_NewNodeID(s)
      [] s.kind = "UndirectedGraph" -> UndirectedGraph_NewNodeID(s)

AddNode(s, n) ==
    CASE s.kind = "DirectedGraph" -> DirectedGraph_AddNode(s, n)
      [] s.kind = "UndirectedGraph" -> UndirectedGraph_AddNode(s, n)

RemoveNode(s, id) ==
    CASE s.kind = "DirectedGraph" -> DirectedGraph_RemoveNode(s, id)
      [] s.kind = "UndirectedGraph" -> UndirectedGraph_RemoveNode(s, id)

SetEdge(s, e) ==
    CASE s.kind = "DirectedGraph" -> DirectedGraph_SetEdge(s, e)
      [] s.kind = "UndirectedGraph" -> UndirectedGraph_SetEdge(s, e)
      [] s.kind = "DirectedMatrix" -> DirectedMatrix_SetEdge(s, e)

RemoveEdge(s, e) ==
    CASE s.kind = "DirectedGraph" -> DirectedGraph_RemoveEdge(s, e)
      [] s.kind = "UndirectedGraph" -> UndirectedGraph_RemoveEdge(s, e)
      [] s.kind = "DirectedMatrix" -> DirectedMatrix_RemoveEdge(s, e)

Edges(s) ==
    CASE s.kind = "DirectedGraph" -> DirectedGraph_Edges(s)
      [] s.kind = "UndirectedGraph" -> UndirectedGraph_Edges(s)
      [] s.kind = "DirectedMatrix" -> DirectedMatrix_Edges(s)

Sparse(s) == s.kind \in {"DirectedGraph", "UndirectedGraph"}

(***************************************************************************)
(* Copy(dst, src).  The slice src.Nodes() is in map order: order is any    *)
(* arrangement of it; src.From(u) is ranged over in any order too.  A call *)
(* that panics ends the copy.  An outcome is the destination reached, the  *)
(* panic, the loop the copy ended in and the number of SetEdge calls that  *)
(* returned.                                                               *)
(***************************************************************************)
Perms(S) ==
    {f \in [1..Cardinality(S) -> S] : \A i, j \in 1..Cardinality(S) : f[i] = f[j] => i = j}

\* the first loop: dst.AddNode(n) for the nodes order[i], order[i+1], ...
RECURSIVE CopyAddNodes(_, _, _)
CopyAddNodes(d, order, i) ==
    IF i > Len(order) THEN Ok(d)
    ELSE LET r == AddNode(d, order[i])
         IN IF r.panic # "" THEN r ELSE CopyAddNodes(r.g, order, i + 1)

\* dst.SetEdge(src.Edge(u.ID(), v.ID())) for one v
\* the SetEdge of Copy as it would be asking src for the edge from v to u
Mutant_CopySetEdge(r, src, u, v) ==
    IF v = Nil \/ GraphEdge(src, v.ID, u.ID) = Nil
    THEN [g |-> r.g, panic |-> "nil pointer dereference", sets |-> r.sets]
    ELSE LET q == SetEdge(r.g, GraphEdge(src, v.ID, u.ID))
         IN [g |-> q.g, panic |-> q.panic,
             sets |-> IF q.panic = "" THEN r.sets + 1 ELSE r.sets]

CopySetEdge(r, src, u, v) ==
    IF v = Nil \/ GraphEdge(src, u.ID, v.ID) = Nil
    THEN [g |-> r.g, panic |-> "nil pointer dereference", sets |-> r.sets]
    ELSE LET q == SetEdge(r.g, GraphEdge(src, u.ID, v.ID))
         IN [g |-> q.g, panic |-> q.panic,
             sets |-> IF q.panic = "" THEN r.sets + 1 ELSE r.sets]

\* the inner loop over vs, the part of src.From(u.ID()) still to come
RECURSIVE CopyFrom(_, _, _, _)
CopyFrom(r, src, u, vs) ==
    IF r.panic # "" \/ vs = {} THEN {r}
    ELSE UNION {CopyFrom(CopySetEdge(r, src, u, v), src, u, vs \ {v}) : v \in vs}

\* the second loop, for the nodes order[i], order[i+1], ...
RECURSIVE CopyEdges(_, _, _, _)
CopyEdges(rs, src, order, i) ==
    IF i > Len(order) THEN rs
    ELSE CopyEdges(UNION {CopyFrom(r, src, order[i], From(src, order[i].ID)) : r \in rs},
                   src, order, i + 1)

Copy(d, src) ==
    UNION {LET a == CopyAddNodes(d, order, 1)
           IN IF a.panic # ""
              THEN {[g |-> a.g, panic |-> a.panic, phase |-> "nodes", sets |-> 0]}
              ELSE {[g |-> r.g, panic |-> r.panic,
                     phase |-> IF r.panic # "" THEN "edges" ELSE "done",
                     sets |-> r.sets] :
                       r \in CopyEdges({[g |-> a.g, panic |-> "", sets |-> 0]}, src, order, 1)} :
           order \in Perms(Nodes(src))}

(***************************************************************************)
(* The client: one store g, built by a constructor, and any sequence of    *)
(* calls on it.  last records the latest call: its name, its arguments     *)
(* (x, y, w), the panic it ended with, NewNodeID's result (ret), and, for  *)
(* RemoveNode, the degree of x in the store the call started from (pre).   *)
(***************************************************************************)
Call(op, x, y, w, panic, ret, pre) ==
    [op |-> op, x |-> x, y |-> y, w |-> w, panic |-> panic, ret |-> ret, pre |-> pre]

NoCall == Call("new", NoID, NoID, 0, "", NoID, 0)

NoCopy ==
    [pc |-> "idle", panic |-> "", phase |-> "", sets |-> 0,
     dstEmpty |-> FALSE, shared |-> FALSE]

Stores ==
    {NewDirectedGraph(self, absent) : self \in Selfs, absent \in Absents}
    \cup {NewUndirectedGraph(self, absent) : self \in Selfs, absent \in Absents}
    \cup UNION {{NewDirectedMatrix(n, init, self, absent) :
                    n \in {maxInt, maxInt + 1}, init \in Inits} :
                self \in Selfs, absent \in Absents}

Builders ==
    {NewDirectedGraph(self, absent) : self \in Selfs, absent \in Absents}
    \cup {NewUndirectedGraph(self, absent) : self \in Selfs, absent \in Absents}

Init ==
    /\ maxInt = SmallInt
    /\ view = Nil
    /\ g \in Stores
    /\ dst \in {NewDirectedGraph(self, absent) : self \in Selfs, absent \in Absents}
    /\ cp = NoCopy
    /\ last = NoCall

\* Degree of a sparse store
Degree(s, id) ==
    CASE s.kind = "DirectedGraph" -> DirectedGraph_Degree(s, id)
      [] s.kind = "UndirectedGraph" -> UndirectedGraph_Degree(s, id)

CallNewNodeID ==
    /\ Sparse(g)
    /\ LET r == NewNodeID(g)
       IN /\ g' = r.g
          /\ last' = Call("NewNodeID", NoID, NoID, 0, r.panic, r.ret, 0)
    /\ UNCHANGED <<dst, cp, view, maxInt>>

CallAddNode ==
    /\ Sparse(g)
    /\ \E id \in IDs :
          LET r == AddNode(g, Node(id))
          IN /\ g' = r.g
             /\ last' = Call("AddNode", id, NoID, 0, r.panic, NoID, 0)
    /\ UNCHANGED <<dst, cp, view, maxInt>>

CallRemoveNode ==
    /\ Sparse(g)
    /\ \E id \in IDs :
          LET r == RemoveNode(g, id)
          IN /\ g' = r.g
             /\ last' = Call("RemoveNode", id, NoID, 0, r.panic, NoID, Degree(g, id))
    /\ UNCHANGED <<dst, cp, view, maxInt>>

CallSetEdge ==
    /\ \E f \in IDs, t \in IDs, w \in Weights :
          LET r == SetEdge(g, Edge(f, t, w))
          IN /\ g' = r.g
             /\ last' = Call("SetEdge", f, t, w, r.panic, NoID, 0)
    /\ UNCHANGED <<dst, cp, view, maxInt>>

CallRemoveEdge ==
    /\ \E f \in IDs, t \in IDs, w \in {1} :
          LET r == RemoveEdge(g, Edge(f, t, w))
          IN /\ g' = r.g
             /\ last' = Call("RemoveEdge", f, t, w, r.panic, NoID, 0)
    /\ UNCHANGED <<dst, cp, view, maxInt>>

Next ==
    \/ CallNewNodeID
    \/ CallAddNode
    \/ CallRemoveNode
    \/ CallSetEdge
    \/ CallRemoveEdge

Spec == Init /\ [][Next]_vars

(***************************************************************************)
(* The copying client: a source store g and a destination builder dst,     *)
(* each built by a constructor and any sequence of calls, then one         *)
(* Copy(dst, g).  cp records the copy: whether dst held no node and        *)
(* whether dst and g shared a node id when it started, and how it ended.   *)
(***************************************************************************)
InitCopy ==
    /\ maxInt = SmallInt
    /\ view = Nil
    /\ g \in Stores
    /\ dst \in Builders
    /\ cp = NoCopy
    /\ last = NoCall

SrcAddNode ==
    /\ cp.pc = "idle" /\ Sparse(g)
    /\ \E id \in IDs : g' = AddNode(g, Node(id)).g
    /\ UNCHANGED <<dst, cp, last, view, maxInt>>

SrcRemoveNode ==
    /\ cp.pc = "idle" /\ Sparse(g)
    /\ \E id \in IDs : g' = RemoveNode(g, id).g
    /\ UNCHANGED <<dst, cp, last, view, maxInt>>

SrcSetEdge ==
    /\ cp.pc = "idle"
    /\ \E f \in IDs, t \in IDs, w \in Weights : g' = SetEdge(g, Edge(f, t, w)).g
    /\ UNCHANGED <<dst, cp, last, view, maxInt>>

SrcRemoveEdge ==
    /\ cp.pc = "idle"
    /\ \E f \in IDs, t \in IDs, w \in {1} : g' = RemoveEdge(g, Edge(f, t, w)).g
    /\ UNCHANGED <<dst, cp, last, view, maxInt>>

DstAddNode ==
    /\ cp.pc = "idle"
    /\ \E id \in IDs : dst' = AddNode(dst, Node(id)).g
    /\ UNCHANGED <<g, cp, last, view, maxInt>>

CallCopy ==
    /\ cp.pc = "idle"
    /\ \E r \in Copy(dst, g) :
          /\ dst' = r.g
          /\ cp' = [pc |-> IF r.panic = "" THEN "done" ELSE "panic",
                    panic |-> r.panic, phase |-> r.phase, sets |-> r.sets,
                    dstEmpty |-> Nodes(dst) = {},
                    shared |-> \E n \in Nodes(g) : Has(dst, n.ID)]
    /\ UNCHANGED <<g, last, view, maxInt>>

NextCopy ==
    \/ SrcAddNode
    \/ SrcRemoveNode
    \/ SrcSetEdge
    \/ SrcRemoveEdge
    \/ DstAddNode
    \/ CallCopy

SpecCopy == InitCopy /\ [][NextCopy]_vars

(***************************************************************************)
(* The allocating client: one sparse store and any sequence of NewNodeID,  *)
(* AddNode and RemoveNode calls on it, in a build with more ids than the   *)
(* stores above are run with.                                              *)
(***************************************************************************)
InitAlloc ==
    /\ maxInt = AllocInt
    /\ view = Nil
    /\ g \in Builders
    /\ dst \in {NewDirectedGraph(self, absent) : self \in Selfs, absent \in Absents}
    /\ cp = NoCopy
    /\ last = NoCall

NextAlloc ==
    \/ CallNewNodeID
    \/ CallAddNode
    \/ CallRemoveNode

SpecAlloc == InitAlloc /\ [][NextAlloc]_vars

(***************************************************************************)
(* The client of Matrix(): one dense store, SetEdge and RemoveEdge calls   *)
(* on it, and a value view obtained from Matrix(), on which the client     *)
(* calls Set and Reset.                                                    *)
(***************************************************************************)
InitMatrix ==
    /\ maxInt = SmallInt
    /\ view = Nil
    /\ g \in UNION {{NewDirectedMatrix(maxInt, init, self, absent) : init \in Inits} :
                      self \in Selfs, absent \in Absents}
    /\ dst \in {NewDirectedGraph(self, absent) : self \in Selfs, absent \in Absents}
    /\ cp = NoCopy
    /\ last = NoCall

CallMatrix ==
    /\ view' = DirectedMatrix_Matrix(g)
    /\ last' = Call("Matrix", NoID, NoID, 0, "", NoID, 0)
    /\ UNCHANGED <<g, dst, cp, maxInt>>

ViewSet ==
    /\ view # Nil
    /\ \E i \in IDs, j \in IDs, w \in Weights :
          LET r == MatrixSet(g, view, i, j, w)
          IN /\ g' = r.g
             /\ last' = Call("Set", i, j, w, r.panic, NoID, 0)
    /\ UNCHANGED <<dst, cp, view, maxInt>>

ViewReset ==
    /\ view # Nil
    /\ g' = MatrixReset(g, view)
    /\ view' = [view EXCEPT !.r = 0, !.c = 0]
    /\ last' = Call("Reset", NoID, NoID, 0, "", NoID, 0)
    /\ UNCHANGED <<dst, cp, maxInt>>

NextMatrix ==
    \/ CallSetEdge
    \/ CallRemoveEdge
    \/ CallMatrix
    \/ ViewSet
    \/ ViewReset

SpecMatrix == InitMatrix /\ [][NextMatrix]_vars

(***************************************************************************)
(* The two directed stores side by side: the dense store g of n nodes with *)
(* no edge (init is absent) and the sparse directed store dst, to which    *)
(* the nodes 0..n-1 are added first; then every SetEdge and RemoveEdge is  *)
(* called on both, with distinct endpoints in [0, n) and a weight that is  *)
(* not absent.                                                             *)
(***************************************************************************)
InitEquiv ==
    /\ maxInt = SmallInt
    /\ view = Nil
    /\ \E self \in Selfs, absent \in Absents, n \in {maxInt, maxInt + 1} :
          /\ g = NewDirectedMatrix(n, absent, self, absent)
          /\ dst = NewDirectedGraph(self, absent)
    /\ cp = NoCopy
    /\ last = NoCall

\* dst holds the nodes of g
SameNodes == DOMAIN dst.nodes = 0..(g.mat.r - 1)

BothAddNode ==
    /\ ~SameNodes
    /\ \E id \in (0..(g.mat.r - 1)) \ DOMAIN dst.nodes :
          LET r == DirectedGraph_AddNode(dst, Node(id))
          IN /\ dst' = r.g
             /\ last' = Call("AddNode", id, NoID, 0, r.panic, NoID, 0)
    /\ UNCHANGED <<g, cp, view, maxInt>>

BothSetEdge ==
    /\ SameNodes
    /\ \E f \in 0..(g.mat.r - 1), t \in 0..(g.mat.r - 1), w \in Weights :
          /\ f # t /\ w # g.absent
          /\ LET r == DirectedGraph_SetEdge(dst, Edge(f, t, w))
                 q == DirectedMatrix_SetEdge(g, Edge(f, t, w))
             IN /\ dst' = r.g
                /\ g' = q.g
                /\ last' = Call("SetEdge", f, t, w,
                                IF r.panic # "" THEN r.panic ELSE q.panic, NoID, 0)
    /\ UNCHANGED <<cp, view, maxInt>>

BothRemoveEdge ==
    /\ SameNodes
    /\ \E f \in 0..(g.mat.r - 1), t \in 0..(g.mat.r - 1), w \in {1} :
          /\ f # t
          /\ LET r == DirectedGraph_RemoveEdge(dst, Edge(f, t, w))
                 q == DirectedMatrix_RemoveEdge(g, Edge(f, t, w))
             IN /\ dst' = r.g
                /\ g' = q.g
                /\ last' = Call("RemoveEdge", f, t, w,
                                IF r.panic # "" THEN r.panic ELSE q.panic, NoID, 0)
    /\ UNCHANGED <<cp, view, maxInt>>

NextEquiv ==
    \/ BothAddNode
    \/ BothSetEdge
    \/ BothRemoveEdge

SpecEquiv == InitEquiv /\ [][NextEquiv]_vars

(***************************************************************************)
(* The properties.                                                         *)
(***************************************************************************)
\* an edge from u to v (directed) or between u and v (undirected) is stored
Stored(s, u, v) == GraphEdge(s, u, v) # Nil

\* C1: after Copy(dst, src) of a sparse undirected src into an empty sparse
\* directed dst, every edge between x and y of src is in dst in both
\* directions: HasEdgeFromTo(x, y) and HasEdgeFromTo(y, x).
C1_CopyUndirectedToDirected ==
    (cp.pc = "done" /\ cp.dstEmpty
       /\ g.kind = "UndirectedGraph" /\ dst.kind = "DirectedGraph")
    => \A x, y \in IDs :
          UndirectedGraph_HasEdgeBetween(g, x, y)
          => /\ DirectedGraph_HasEdgeFromTo(dst, x, y)
             /\ DirectedGraph_HasEdgeFromTo(dst, y, x)

\* C2: in a dense store that is NewDirectedMatrix(n, init, self, absent)
\* followed by SetEdge(u->v, w) with u # v in range and w # absent, Weight(u, v) is
\* (w, true), Weight(v, u), an edge never set, is (absent, false), and
\* Weight(x, x) is (self, true) for every x.
C2_DenseWeightAfterSetEdge ==
    g.kind = "DirectedMatrix"
    => \A n \in {maxInt, maxInt + 1}, init \in Inits, u, v \in IDs, w \in Weights :
          (/\ u # v /\ u < n /\ v < n /\ w # g.absent
           /\ last = Call("SetEdge", u, v, w, "", NoID, 0)
           /\ g = DirectedMatrix_SetEdge(
                      NewDirectedMatrix(n, init, g.self, g.absent), Edge(u, v, w)).g)
          => /\ DirectedMatrix_Weight(g, u, v) = <<w, TRUE>>
             /\ DirectedMatrix_Weight(g, v, u) = <<g.absent, FALSE>>
             /\ \A x \in IDs : DirectedMatrix_Weight(g, x, x) = <<g.self, TRUE>>

\* C3: in the sparse directed store, in every reachable state and for all
\* ids u, v: from[u][v] exists iff to[v][u] exists, the two entries hold the
\* same edge, and HasEdgeFromTo(u, v) iff u is among To(v).
C3_DirectedMirror ==
    g.kind = "DirectedGraph"
    => \A u, v \in IDs :
          /\ (v \in DOMAIN MapAt(g.from, u)) <=> (u \in DOMAIN MapAt(g.to, v))
          /\ (v \in DOMAIN MapAt(g.from, u)) => g.from[u][v] = g.to[v][u]
          /\ DirectedGraph_HasEdgeFromTo(g, u, v) <=> (Node(u) \in DirectedGraph_To(g, v))

\* a node with edges was removed from a directed store and an edge is left
C3_Witness ==
    /\ g.kind = "DirectedGraph"
    /\ last.op = "RemoveNode" /\ last.pre > 0
    /\ \E u, v \in IDs : DirectedGraph_HasEdgeFromTo(g, u, v)

\* C4: in the sparse undirected store, in every reachable state and for all
\* ids a, b: edges[a][b] exists iff edges[b][a] exists, and the two entries
\* hold the same edge value.
C4_UndirectedMirror ==
    g.kind = "UndirectedGraph"
    => \A a, b \in IDs :
          /\ (b \in DOMAIN MapAt(g.edges, a)) <=> (a \in DOMAIN MapAt(g.edges, b))
          /\ (b \in DOMAIN MapAt(g.edges, a)) => g.edges[a][b] = g.edges[b][a]

\* an edge between two present nodes was removed from an undirected store
\* and another edge is left
C4_Witness ==
    /\ g.kind = "UndirectedGraph"
    /\ last.op = "RemoveEdge" /\ last.x # last.y
    /\ UndirectedGraph_Has(g, last.x) /\ UndirectedGraph_Has(g, last.y)
    /\ \E a, b \in IDs : UndirectedGraph_HasEdgeBetween(g, a, b)

\* C5: in the sparse undirected store, right after SetEdge(e) with endpoints
\* F # T the call has returned and EdgeBetween(F, T) and EdgeBetween(T, F)
\* are both e; right after RemoveEdge(e) both are nil.
C5_UndirectedSetRemoveEdge ==
    g.kind = "UndirectedGraph"
    => /\ (last.op = "SetEdge" /\ last.x # last.y)
          => /\ last.panic = ""
             /\ UndirectedGraph_EdgeBetween(g, last.x, last.y) = Edge(last.x, last.y, last.w)
             /\ UndirectedGraph_EdgeBetween(g, last.y, last.x) = Edge(last.x, last.y, last.w)
       /\ last.op = "RemoveEdge"
          => /\ UndirectedGraph_EdgeBetween(g, last.x, last.y) = Nil
             /\ UndirectedGraph_EdgeBetween(g, last.y, last.x) = Nil

\* SetEdge has just stored an edge given with its larger endpoint first in
\* an undirected store holding a third node
C5_Witness ==
    /\ g.kind = "UndirectedGraph"
    /\ last.op = "SetEdge" /\ last.x > last.y /\ last.panic = ""
    /\ Cardinality(DOMAIN g.nodes) = 3

\* no edge a store holds has equal endpoints
NoSelfEdge ==
    CASE g.kind = "DirectedGraph" ->
            \A u, v \in IDs :
                /\ v \in DOMAIN MapAt(g.from, u)
                   => u # v /\ g.from[u][v].F.ID # g.from[u][v].T.ID
                /\ v \in DOMAIN MapAt(g.to, u)
                   => u # v /\ g.to[u][v].F.ID # g.to[u][v].T.ID
      [] g.kind = "UndirectedGraph" ->
            \A u, v \in IDs :
                v \in DOMAIN MapAt(g.edges, u)
                => u # v /\ g.edges[u][v].F.ID # g.edges[u][v].T.ID
      [] g.kind = "DirectedMatrix" ->
            \A e \in DirectedMatrix_Edges(g) : e.F.ID # e.T.ID

\* C6: in all three stores SetEdge(e) with equal endpoints panics and leaves
\* the store exactly as it was (nodes, edges or cells, freeIDs and usedIDs),
\* and no stored edge ever has equal endpoints.
C6_SelfEdgeRejected ==
    /\ []NoSelfEdge
    /\ [][(last'.op = "SetEdge" /\ last'.x = last'.y)
              => (last'.panic # "" /\ g' = g)]_vars

\* SetEdge with equal endpoints has just panicked on a sparse store that
\* does not hold the endpoint
C6_Witness ==
    /\ Sparse(g)
    /\ last.op = "SetEdge" /\ last.x = last.y /\ last.panic # ""
    /\ ~Has(g, last.x)
    /\ DOMAIN g.nodes # {}

\* C7: in both sparse stores, in every reachable state and for all ids x, y:
\* Weight(x, y) is (self, true) if x = y, else (w, true) with w the weight of
\* the stored edge from x to y (directed) or between x and y (undirected)
\* if there is one, else (absent, false); found is true iff x = y or
\* Edge(x, y) is not nil.
C7_SparseWeight ==
    Sparse(g)
    => \A x, y \in IDs :
          /\ Weight(g, x, y) =
                IF x = y THEN <<g.self, TRUE>>
                ELSE IF Stored(g, x, y) THEN <<GraphEdge(g, x, y).W, TRUE>>
                ELSE <<g.absent, FALSE>>
          /\ Weight(g, x, y)[2] <=> (x = y \/ Stored(g, x, y))
          /\ Stored(g, x, y)
             => IF g.kind = "DirectedGraph"
                THEN GraphEdge(g, x, y).F.ID = x /\ GraphEdge(g, x, y).T.ID = y
                ELSE {GraphEdge(g, x, y).F.ID, GraphEdge(g, x, y).T.ID} = {x, y}

\* a directed store holds an edge one way only, its weight the value of absent
C7_Witness ==
    /\ g.kind = "DirectedGraph"
    /\ \E x, y \in IDs :
          /\ x # y
          /\ Weight(g, x, y) = <<g.absent, TRUE>>
          /\ Weight(g, y, x) = <<g.absent, FALSE>>

\* C8: Copy(dst, src) into an empty sparse dst of the same directedness as
\* the sparse src returns, and then dst has exactly src's node ids and, for
\* all u, v, an edge u->v iff src has one, with the same weight.
C8_CopyReproduces ==
    (cp.pc # "idle" /\ cp.dstEmpty /\ Sparse(g) /\ dst.kind = g.kind)
    => /\ cp.pc = "done"
       /\ DOMAIN dst.nodes = DOMAIN g.nodes
       /\ {n.ID : n \in Nodes(dst)} = {n.ID : n \in Nodes(g)}
       /\ \A u, v \in IDs :
             /\ Stored(dst, u, v) <=> Stored(g, u, v)
             /\ Stored(g, u, v) => GraphEdge(dst, u, v).W = GraphEdge(g, u, v).W
             /\ Weight(dst, u, v) = Weight(g, u, v)

\* a directed store with two reciprocal edges of different weights and a
\* third node was copied into an empty directed store
C8_Witness ==
    /\ cp.pc = "done" /\ cp.dstEmpty
    /\ g.kind = "DirectedGraph" /\ dst.kind = "DirectedGraph"
    /\ Cardinality(DOMAIN g.nodes) = 3
    /\ \E u, v \in IDs :
          /\ Stored(g, u, v) /\ Stored(g, v, u)
          /\ GraphEdge(g, u, v).W # GraphEdge(g, v, u).W

\* the edges a sparse store holds
SparseEdges(s) ==
    {GraphEdge(s, p[1], p[2]) : p \in {q \in IDs \X IDs : Stored(s, q[1], q[2])}}

\* C9: Copy(dst, src) with dst holding a node whose id is the id of a node
\* of src panics with a node id collision, in the loop that adds the nodes,
\* before any SetEdge on dst.
C9_CopyCollision ==
    (cp.pc # "idle" /\ cp.shared)
    => /\ cp.pc = "panic"
       /\ cp.panic = "simple: node ID collision"
       /\ cp.phase = "nodes"
       /\ cp.sets = 0
       /\ SparseEdges(dst) = {}

\* a copy from a store with an edge panicked on a shared id after it had
\* added a node
C9_Witness ==
    /\ cp.pc = "panic" /\ cp.shared
    /\ Sparse(g) /\ SparseEdges(g) # {}
    /\ \E n \in Nodes(g) : ~Has(dst, n.ID)
    /\ Cardinality(DOMAIN dst.nodes) >= 2

\* C10: in both sparse stores, right after RemoveNode(id), Has(id) is false,
\* From(id) and To(id) are empty and Degree(id) is 0.
C10_RemovedNodeGone ==
    (Sparse(g) /\ last.op = "RemoveNode")
    => /\ ~Has(g, last.x)
       /\ From(g, last.x) = {}
       /\ g.kind = "DirectedGraph" => DirectedGraph_To(g, last.x) = {}
       /\ Degree(g, last.x) = 0

\* a node that had edges was removed from a directed store
C10_Witness ==
    /\ g.kind = "DirectedGraph"
    /\ last.op = "RemoveNode" /\ last.pre >= 2
    /\ DOMAIN g.nodes # {}

\* every read operation of a store over every id: Has, Nodes, From, To, Edge,
\* HasEdgeFromTo, HasEdgeBetween, Weight, Degree, Edges, and the next
\* NewNodeID (sparse) or the contents of Matrix() (dense)
Reads(s) ==
    CASE s.kind = "DirectedGraph" ->
           <<[id \in IDs |-> DirectedGraph_Has(s, id)], DirectedGraph_Nodes(s),
             [id \in IDs |-> DirectedGraph_From(s, id)],
             [id \in IDs |-> DirectedGraph_To(s, id)],
             [p \in IDs \X IDs |-> DirectedGraph_Edge(s, p[1], p[2])],
             [p \in IDs \X IDs |-> DirectedGraph_HasEdgeFromTo(s, p[1], p[2])],
             [p \in IDs \X IDs |-> DirectedGraph_HasEdgeBetween(s, p[1], p[2])],
             [p \in IDs \X IDs |-> DirectedGraph_Weight(s, p[1], p[2])],
             [id \in IDs |-> DirectedGraph_Degree(s, id)],
             DirectedGraph_Edges(s),
             [ret |-> DirectedGraph_NewNodeID(s).ret,
              panic |-> DirectedGraph_NewNodeID(s).panic]>>
      [] s.kind = "UndirectedGraph" ->
           <<[id \in IDs |-> UndirectedGraph_Has(s, id)], UndirectedGraph_Nodes(s),
             [id \in IDs |-> UndirectedGraph_From(s, id)],
             [p \in IDs \X IDs |-> UndirectedGraph_Edge(s, p[1], p[2])],
             [p \in IDs \X IDs |-> UndirectedGraph_HasEdgeBetween(s, p[1], p[2])],
             [p \in IDs \X IDs |-> UndirectedGraph_Weight(s, p[1], p[2])],
             [id \in IDs |-> UndirectedGraph_Degree(s, id)],
             UndirectedGraph_Edges(s),
             [ret |-> UndirectedGraph_NewNodeID(s).ret,
              panic |-> UndirectedGraph_NewNodeID(s).panic]>>
      [] s.kind = "DirectedMatrix" ->
           <<[id \in IDs |-> DirectedMatrix_Has(s, id)], DirectedMatrix_Nodes(s),
             [id \in IDs |-> DirectedMatrix_From(s, id)],
             [id \in IDs |-> DirectedMatrix_To(s, id)],
             [p \in IDs \X IDs |-> DirectedMatrix_Edge(s, p[1], p[2])],
             [p \in IDs \X IDs |-> DirectedMatrix_HasEdgeFromTo(s, p[1], p[2])],
             [p \in IDs \X IDs |-> DirectedMatrix_HasEdgeBetween(s, p[1], p[2])],
             [p \in IDs \X IDs |-> DirectedMatrix_Weight(s, p[1], p[2])],
             [id \in IDs |-> DirectedMatrix_Degree(s, id)],
             DirectedMatrix_Edges(s),
             [p \in (0..(DirectedMatrix_Matrix(s).r - 1))
                      \X (0..(DirectedMatrix_Matrix(s).c - 1)) |->
                 MatrixAt(s, DirectedMatrix_Matrix(s), p[1], p[2])]>>

\* C11: a RemoveNode(id) of an id the store does not have, and a RemoveEdge(e)
\* of an edge the store does not hold from e.From to e.To (whatever the
\* endpoints, out of range or equal ones in the dense store included), leave
\* the result of every read operation as it was.
C11_RemoveAbsentNoOp ==
    [][((last'.op = "RemoveNode" /\ ~Has(g, last'.x))
        \/ (last'.op = "RemoveEdge" /\ ~Stored(g, last'.x, last'.y)))
       => Reads(g') = Reads(g)]_vars

\* C12: in both sparse stores, in every reachable state, the id NewNodeID
\* returns is not the id of a present node, before the call and after it, so
\* an AddNode of that id right after it does not fail on a collision; the id
\* the latest NewNodeID returned is not present in the state it left.
C12_NewNodeIDFresh ==
    /\ Sparse(g) =>
          LET r == NewNodeID(g)
          IN r.panic = "" =>
                /\ ~Has(g, r.ret)
                /\ ~Has(r.g, r.ret)
                /\ AddNode(r.g, Node(r.ret)).panic = ""
    /\ (last.op = "NewNodeID" /\ last.panic = "") => ~Has(g, last.ret)

\* NewNodeID handed out the freed id 0 while node 1 is present
C12_Witness ==
    /\ last.op = "NewNodeID" /\ last.panic = "" /\ last.ret = 0
    /\ Nodes(g) = {Node(1)}

\* the store holds the nodes 0..n-1 less the removed ones still in freeIDs
Prefix(s, n) ==
    /\ (DOMAIN s.nodes) \cup s.freeIDs = 0..(n - 1)
    /\ (DOMAIN s.nodes) \cap s.freeIDs = {}
    /\ s.usedIDs = DOMAIN s.nodes

\* C13: once the nodes 0..n-1 were added and some of them removed, each
\* NewNodeID (followed by the AddNode of its id) returns the smallest removed
\* id not handed out again yet, so the removed ids come back in increasing
\* order; the fresh id n is returned only when none is left.
C13_ReuseOrder ==
    [][\A n \in 1..maxInt :
          (last'.op = "NewNodeID" /\ Prefix(g, n)) =>
              IF g.freeIDs # {}
              THEN last'.panic = "" /\ last'.ret = SetMin(g.freeIDs)
              ELSE n < maxInt => (last'.panic = "" /\ last'.ret = n)]_vars

\* the spec's case: 0, 1, 2 added, 1 removed, and NewNodeID returned 1
C13_Witness ==
    /\ last.op = "NewNodeID" /\ last.panic = "" /\ last.ret = 1
    /\ Nodes(g) = {Node(0), Node(2)}
    /\ g.usedIDs = {0, 2} /\ g.freeIDs = {}

\* the reads of the dense store the grid decides
GridReads(s) ==
    <<[p \in IDs \X IDs |-> DirectedMatrix_Weight(s, p[1], p[2])],
      [p \in IDs \X IDs |-> DirectedMatrix_HasEdgeFromTo(s, p[1], p[2])],
      [id \in IDs |-> DirectedMatrix_From(s, id)],
      [id \in IDs |-> DirectedMatrix_To(s, id)],
      [id \in IDs |-> DirectedMatrix_Degree(s, id)],
      DirectedMatrix_Edges(s)>>

C15_AbsentQueriesSilent ==
    \A id \in IDs :
        ~Has(g, id) =>
            CASE g.kind = "DirectedGraph" ->
                   /\ DirectedGraph_From(g, id) = {}
                   /\ DirectedGraph_To(g, id) = {}
                   /\ DirectedGraph_Degree(g, id) = 0
              [] g.kind = "UndirectedGraph" ->
                   /\ UndirectedGraph_From(g, id) = {}
                   /\ UndirectedGraph_Degree(g, id) = 0
              [] g.kind = "DirectedMatrix" ->
                   /\ DirectedMatrix_From(g, id) = {}
                   /\ DirectedMatrix_To(g, id) = {}
                   /\ DirectedMatrix_Degree(g, id) = [ret |-> 0, panic |-> ""]

\* C16: the sparse directed store holding the nodes 0..n-1 and the dense
\* store of n nodes built with init = absent, after the same SetEdge and
\* RemoveEdge calls (no call failed), give the same Has, HasEdgeFromTo,
\* HasEdgeBetween, From(u), To(u), Degree(u), Edge(u, v) and its weight for
\* all u, v in [0, n), and the same set of Edges().
C16_SparseDenseEquivalent ==
    SameNodes =>
        /\ last.panic = ""
        /\ \A u \in 0..(g.mat.r - 1) :
              /\ DirectedGraph_Has(dst, u) = DirectedMatrix_Has(g, u)
              /\ DirectedGraph_From(dst, u) = DirectedMatrix_From(g, u)
              /\ DirectedGraph_To(dst, u) = DirectedMatrix_To(g, u)
              /\ DirectedMatrix_Degree(g, u) =
                    [ret |-> DirectedGraph_Degree(dst, u), panic |-> ""]
        /\ \A u \in 0..(g.mat.r - 1), v \in 0..(g.mat.r - 1) :
              /\ DirectedGraph_HasEdgeFromTo(dst, u, v) = DirectedMatrix_HasEdgeFromTo(g, u, v)
              /\ DirectedGraph_HasEdgeBetween(dst, u, v) = DirectedMatrix_HasEdgeBetween(g, u, v)
              /\ DirectedGraph_Edge(dst, u, v) = DirectedMatrix_Edge(g, u, v)
        /\ DirectedGraph_Edges(dst) = DirectedMatrix_Edges(g)

\* both stores of three nodes hold 0 -> 1 and 2 -> 0 after 1 -> 0 was removed
C16_Witness ==
    /\ SameNodes /\ g.mat.r = 3
    /\ last.op = "RemoveEdge" /\ last.x = 1 /\ last.y = 0
    /\ DirectedGraph_Edges(dst) = {Edge(0, 1, 1), Edge(2, 0, 1)}
    /\ DirectedMatrix_Edges(g) = {Edge(0, 1, 1), Edge(2, 0, 1)}

\* the ids of [0, maxInt] that are not the id of a present node
Unused(s) == {id \in 0..maxInt : ~Has(s, id)}

\* C17, as claimed: in every reachable state of a sparse store NewNodeID
\* returns the smallest id of freeIDs when freeIDs is not empty; otherwise one
\* past the maximum of usedIDs (0 when usedIDs is empty), or, when that
\* maximum is maxInt, the first unused id counting from 0.
C17_AllocatorPolicy ==
    Sparse(g) =>
        LET r == NewNodeID(g)
        IN IF g.freeIDs # {}
           THEN r.panic = "" /\ r.ret = SetMin(g.freeIDs)
           ELSE IF g.usedIDs = {}
           THEN r.panic = "" /\ r.ret = 0
           ELSE IF SetMax(g.usedIDs) < maxInt
           THEN r.panic = "" /\ r.ret = SetMax(g.usedIDs) + 1
           ELSE Unused(g) # {} => (r.panic = "" /\ r.ret = SetMin(Unused(g)))

\* C17, amended: when the store holds no node NewNodeID returns 0, whatever
\* freeIDs holds, and takes nothing from freeIDs.  When it holds at least one
\* node and fewer than maxInt, NewNodeID returns the smallest id of freeIDs
\* (and takes it from freeIDs) when freeIDs is not empty; otherwise one past
\* the largest present id, or, when that id is maxInt, the smallest id that
\* is not present.  When it holds maxInt nodes or more, NewNodeID fails.
C17_AllocatorPolicyAmended ==
    Sparse(g) =>
        LET r == NewNodeID(g)
            present == {id \in IDs : Has(g, id)}
        IN IF present = {}
           THEN r.panic = "" /\ r.ret = 0 /\ r.g = g
           ELSE IF Cardinality(present) >= maxInt
           THEN r.panic # "" /\ r.g = g
           ELSE IF g.freeIDs # {}
           THEN /\ r.panic = "" /\ r.ret = SetMin(g.freeIDs)
                /\ r.g = [g EXCEPT !.freeIDs = g.freeIDs \ {r.ret}]
           ELSE IF \E id \in present : id = maxInt
           THEN r.panic = "" /\ r.ret = SetMin(Unused(g)) /\ r.g = g
           ELSE /\ r.panic = "" /\ r.g = g
                /\ r.ret - 1 \in present /\ \A id \in present : id < r.ret

\* NewNodeID returned 0 on a store that holds no node while freeIDs is {1, 2}
C17_Witness ==
    /\ Sparse(g) /\ Nodes(g) = {} /\ g.freeIDs = {1, 2}
    /\ last.op = "NewNodeID" /\ last.panic = "" /\ last.ret = 0

\* freeIDs and usedIDs are disjoint, usedIDs holds the id of every present
\* node, no id of freeIDs is present, and a store just built has no free id
AllocatorInvariant ==
    Sparse(g) =>
        /\ g.freeIDs \cap g.usedIDs = {}
        /\ \A n \in Nodes(g) : n.ID \in g.usedIDs
        /\ \A id \in g.freeIDs : ~Has(g, id)
        /\ last.op = "new" => g.freeIDs = {}

\* C18: in every state of a sparse store reached by NewNodeID, AddNode,
\* RemoveNode, SetEdge and RemoveEdge calls, freeIDs and usedIDs are disjoint,
\* usedIDs holds the id of every present node, and every id of freeIDs is not
\* present and was the id of a node that was added and later removed: an id
\* enters freeIDs only in a step that removes the present node of that id.
C18_AllocatorInvariants ==
    /\ []AllocatorInvariant
    /\ [][Sparse(g) =>
             \A id \in g'.freeIDs \ g.freeIDs :
                 /\ Has(g, id) /\ ~Has(g', id)
                 /\ last'.op = "RemoveNode" /\ last'.x = id]_vars

\* node 0 was removed from a store that holds the edge between 1 and 2
C18_Witness ==
    /\ Sparse(g) /\ g.freeIDs = {0} /\ g.usedIDs = {1, 2}
    /\ last.op = "RemoveNode" /\ last.x = 0 /\ last.pre > 0
    /\ Stored(g, 1, 2)

\* C19: NewNodeID of a sparse store fails only when the id space is
\* exhausted: in every reachable state in which some id of [0, maxInt] is not
\* the id of a present node, NewNodeID returns an id that is not present.
C19_FailsOnlyWhenExhausted ==
    (Sparse(g) /\ Unused(g) # {}) =>
        LET r == NewNodeID(g)
        IN r.panic = "" /\ r.ret \in Unused(g)

\* C20: a RemoveNode(id) of a present node of a sparse store leaves no stored
\* edge with id as an endpoint (id is in no node's From or To, and no edge
\* from or to id is stored), leaves every edge between two other nodes as it
\* was (existence and weight), leaves every other node present or absent as
\* it was, and releases id: id is in freeIDs and not in usedIDs.
C20_RemoveNodeFrame ==
    [][(last'.op = "RemoveNode" /\ Sparse(g) /\ Has(g, last'.x)) =>
          /\ ~Has(g', last'.x)
          /\ From(g', last'.x) = {}
          /\ \A e \in Edges(g') : e.F.ID # last'.x /\ e.T.ID # last'.x
          /\ \A u \in IDs :
                /\ Node(last'.x) \notin From(g', u)
                /\ g.kind = "DirectedGraph" =>
                      (Node(last'.x) \notin DirectedGraph_To(g', u)
                       /\ DirectedGraph_To(g', last'.x) = {})
                /\ ~Stored(g', u, last'.x) /\ ~Stored(g', last'.x, u)
          /\ \A u \in IDs \ {last'.x}, v \in IDs \ {last'.x} :
                /\ GraphEdge(g', u, v) = GraphEdge(g, u, v)
                /\ Weight(g', u, v) = Weight(g, u, v)
          /\ \A u \in IDs \ {last'.x} : Has(g', u) = Has(g, u)
          /\ last'.x \in g'.freeIDs /\ last'.x \notin g'.usedIDs]_vars

\* node 1, which had edges, was removed; the edge of 0 and 2 is still stored
C20_Witness ==
    /\ Sparse(g) /\ last.op = "RemoveNode" /\ last.x = 1 /\ last.pre > 1
    /\ ~Has(g, 1) /\ 1 \in g.freeIDs
    /\ Has(g, 0) /\ Has(g, 2) /\ (Stored(g, 0, 2) \/ Stored(g, 2, 0))

\* C21: in the dense store, after any SetEdge and RemoveEdge calls (a
\* RemoveEdge with equal in-range endpoints included), the diagonal is read
\* neither as an edge nor as absence: for every i in [0, n), Weight(i, i) is
\* (self, true), HasEdgeFromTo(i, i) and HasEdgeBetween(i, i) are false,
\* Edge(i, i) is nil, i is in neither From(i) nor To(i), Edges() holds no edge
\* from i to i, and Degree(i) is the number of nodes of From(i) and of To(i).
C21_DenseDiagonal ==
    g.kind = "DirectedMatrix" =>
        \A i \in 0..(g.mat.r - 1) :
            /\ DirectedMatrix_Weight(g, i, i) = <<g.self, TRUE>>
            /\ ~DirectedMatrix_HasEdgeFromTo(g, i, i)
            /\ ~DirectedMatrix_HasEdgeBetween(g, i, i)
            /\ DirectedMatrix_Edge(g, i, i) = Nil
            /\ Node(i) \notin DirectedMatrix_From(g, i)
            /\ Node(i) \notin DirectedMatrix_To(g, i)
            /\ \A e \in DirectedMatrix_Edges(g) : ~(e.F.ID = i /\ e.T.ID = i)
            /\ DirectedMatrix_Degree(g, i) =
                  [ret |-> Cardinality(DirectedMatrix_From(g, i))
                           + Cardinality(DirectedMatrix_To(g, i)),
                   panic |-> ""]

\* RemoveEdge(0 -> 0) wrote absent in the diagonal cell of a store with edges
C21_Witness ==
    /\ g.kind = "DirectedMatrix"
    /\ last.op = "RemoveEdge" /\ last.x = 0 /\ last.y = 0 /\ last.panic = ""
    /\ g.mat.at[<<0, 0>>] = g.absent /\ g.absent # g.self
    /\ DirectedMatrix_HasEdgeFromTo(g, 0, 1)

\* C22: in the sparse undirected store, in every reachable state, Edges()
\* holds each edge exactly once: for every unordered pair {a, b} with an edge
\* between a and b exactly one element of the slice has the endpoints a and
\* b, and the length of the slice is the number of such pairs; whatever the
\* order the maps are ranged in, the elements are the stored edges.
C22_UndirectedEdgesOnce ==
    g.kind = "UndirectedGraph" =>
        \A sl \in UndirectedGraph_EdgesSlices(g) :
            /\ \A a \in IDs, b \in IDs :
                  UndirectedGraph_HasEdgeBetween(g, a, b) =>
                      Cardinality({i \in 1..Len(sl) :
                          {sl[i].F.ID, sl[i].T.ID} = {a, b}}) = 1
            /\ Len(sl) = Cardinality({{p[1], p[2]} :
                            p \in {q \in IDs \X IDs :
                                      UndirectedGraph_HasEdgeBetween(g, q[1], q[2])}})
            /\ {sl[i] : i \in 1..Len(sl)} = UndirectedGraph_Edges(g)

\* the undirected store holds the three edges of a triangle
C22_Witness ==
    /\ g.kind = "UndirectedGraph"
    /\ \A a \in IDs, b \in IDs : a # b => UndirectedGraph_HasEdgeBetween(g, a, b)
    /\ \E sl \in UndirectedGraph_EdgesSlices(g) : Len(sl) = 3

\* C23: in both sparse stores, after any sequence of calls, the keys of the
\* adjacency maps are the ids of the nodes (directed: from and to; undirected:
\* edges), every stored edge joins two present nodes (a node of From(v) or
\* To(v) is a present node, and so is v), and a SetEdge that returned left
\* both endpoints present.
C23_AdjacencyKeys ==
    /\ g.kind = "DirectedGraph" =>
          /\ DOMAIN g.from = DOMAIN g.nodes
          /\ DOMAIN g.to = DOMAIN g.nodes
          /\ \A v \in DOMAIN g.from : DOMAIN g.from[v] \subseteq DOMAIN g.nodes
          /\ \A v \in DOMAIN g.to : DOMAIN g.to[v] \subseteq DOMAIN g.nodes
          /\ \A v \in IDs :
                /\ \A n \in DirectedGraph_From(g, v) :
                      n # Nil /\ DirectedGraph_Has(g, n.ID) /\ DirectedGraph_Has(g, v)
                /\ \A n \in DirectedGraph_To(g, v) :
                      n # Nil /\ DirectedGraph_Has(g, n.ID) /\ DirectedGraph_Has(g, v)
          /\ \A e \in DirectedGraph_Edges(g) :
                DirectedGraph_Has(g, e.F.ID) /\ DirectedGraph_Has(g, e.T.ID)
    /\ g.kind = "UndirectedGraph" =>
          /\ DOMAIN g.edges = DOMAIN g.nodes
          /\ \A v \in DOMAIN g.edges : DOMAIN g.edges[v] \subseteq DOMAIN g.nodes
          /\ \A v \in IDs :
                \A n \in UndirectedGraph_From(g, v) :
                    n # Nil /\ UndirectedGraph_Has(g, n.ID) /\ UndirectedGraph_Has(g, v)
          /\ \A e \in UndirectedGraph_Edges(g) :
                UndirectedGraph_Has(g, e.F.ID) /\ UndirectedGraph_Has(g, e.T.ID)
    /\ (Sparse(g) /\ last.op = "SetEdge" /\ last.panic = "") =>
          Has(g, last.x) /\ Has(g, last.y)

\* SetEdge(0, 2) on a sparse store added both nodes; node 1 was never added
C23_Witness ==
    /\ Sparse(g) /\ last.op = "SetEdge" /\ last.panic = ""
    /\ last.x = 0 /\ last.y = 2
    /\ Nodes(g) = {Node(0), Node(2)} /\ g.usedIDs = {0, 2} /\ g.freeIDs = {}

\* the sum of Degree(n) over the nodes ns of a sparse store
RECURSIVE DegreeSum(_, _)
DegreeSum(s, ns) ==
    IF ns = {} THEN 0
    ELSE LET n == CHOOSE x \in ns : TRUE
         IN Degree(s, n.ID) + DegreeSum(s, ns \ {n})

\* C24: in every reachable state of a sparse store the sum of Degree(n) over
\* the present nodes is twice the number of edges Edges() returns (directed:
\* Degree is out-degree plus in-degree; undirected: the number of neighbours).
C24_HandshakeDegreeSum ==
    /\ g.kind = "DirectedGraph" =>
          /\ DegreeSum(g, Nodes(g)) = 2 * DirectedGraph_EdgesLen(g, DOMAIN g.nodes)
          /\ DirectedGraph_EdgesLen(g, DOMAIN g.nodes) = Cardinality(DirectedGraph_Edges(g))
    /\ g.kind = "UndirectedGraph" =>
          \A sl \in UndirectedGraph_EdgesSlices(g) :
              DegreeSum(g, Nodes(g)) = 2 * Len(sl)

\* a sparse store of three nodes holding at least two edges, two of them at 0
C24_Witness ==
    /\ Sparse(g) /\ Cardinality(Nodes(g)) = 3
    /\ Degree(g, 0) >= 2 /\ Degree(g, 2) = 1
    /\ DegreeSum(g, Nodes(g)) >= 4
    /\ Cardinality(Edges(g)) >= 2

====
